---- MODULE Spec2Model ----
(***************************************************************************)
(* Model of the browser-side transcription pipeline of transkribi:         *)
(*   processFile -> splitAudioIntoChunks (Chunk Planner)                   *)
(*               -> transcribeInChunks -> chunkToWavFile -> transcribeAudio *)
(* Sample positions are integers (indices into monoData).  A time in       *)
(* seconds is kept as the sample position it was computed from, together   *)
(* with the sample rate; the conversion back to a sample index             *)
(* (Math.floor(t * sampleRate)) is TimeToSample.                           *)
(***************************************************************************)
EXTENDS Integers, Sequences, FiniteSets, TLC

(* ------------------------------------------------------------------ *)
(* Bounds of the model                                                  *)
(* ------------------------------------------------------------------ *)
\* stream lengths are enumerated in half chunk budgets: 0..MaxHalfChunks
MaxHalfChunks == 5
\* the planner loop is followed for at most this many emitted chunks
MaxChunks == 5
\* the Stitcher is followed for 1 .. MaxPieces pieces
MaxPieces == 3
\* the WAV writer is followed for buffers of 0 .. MaxSamples samples
MaxSamples == 3
\* transcribeWithSplitting: how many times the first file may need halving
MaxHalvings == 3

(* ------------------------------------------------------------------ *)
(* Program constants, src/src/utils/fileProcessor.ts                    *)
(* ------------------------------------------------------------------ *)
MAX_CHUNK_SIZE == 4 * 1024 * 1024
MIN_CHUNK_DURATION == 3
OVERLAP_DURATION == 1
bytesPerSample == 4

Abs(x) == IF x < 0 THEN -x ELSE x
MinOf(a, b) == IF a < b THEN a ELSE b
MaxOf(a, b) == IF a > b THEN a ELSE b

\* Math.floor(sampleRate * 0.02): the 20 ms analysis window of detectSilence
windowSize(sr) == (sr * 2) \div 100

\* samplesPerChunk = Math.floor(MAX_CHUNK_SIZE / bytesPerSample)
samplesPerChunk == MAX_CHUNK_SIZE \div bytesPerSample

\* minChunkSamples = Math.max(MIN_CHUNK_DURATION * sampleRate, samplesPerChunk / 2)
minChunkSamples(sr) == MaxOf(MIN_CHUNK_DURATION * sr, samplesPerChunk \div 2)

\* overlapSamples = OVERLAP_DURATION * sampleRate
overlapSamples(sr) == OVERLAP_DURATION * sr

\* detectSilence can report window k of a stream of len0 samples
\* (loop: for i = 0; i < data.length - windowSize; i += windowSize), i = k * windowSize
IsSilenceWindow(k, len0, sr) == k >= 0 /\ k * windowSize(sr) < len0 - windowSize(sr)

\* Pairs <<x, sampleRate>> for which the IEEE-754 double evaluation of
\* Math.floor((x / sampleRate) * sampleRate) yields x - 1 instead of x.
\* Enumerated for the sample positions that the planner converts for the streams
\* of this model (stream lengths up to 7 half chunk budgets).
FloatLoss ==
  { <<100018, 44100>>, <<3245746, 44100>>, <<3768786, 44100>>,
    <<1655040, 192000>>, <<2054656, 192000>>, <<3145472, 192000>> }

\* Math.floor(t * sampleRate) for a time t that was computed as x / sampleRate
TimeToSample(x, sr) == IF <<x, sr>> \in FloatLoss THEN x - 1 ELSE x

\* Math.abs(p - q) < MIN_SILENCE_DURATION (0.5 s) for times p = a/sr, q = b/sr
WithinMinSilence(a, b, sr) == 2 * Abs(a - b) < sr

\* silencePoints.filter(p => |p - point| < MIN_SILENCE_DURATION).length * 0.02
\*   >= MIN_SILENCE_DURATION, in hundredths of a second
EnoughSilence(points, k, sr) ==
  Cardinality({ q \in points :
                  WithinMinSilence(q * windowSize(sr), k * windowSize(sr), sr) }) * 2 >= 50

\* findBestSplitPoint(silencePoints, targetTime, sampleRate), targetTime = target / sr.
\* The loop runs over the points in ascending order and replaces bestPoint only
\* by a point that is strictly nearer, within the tolerance and silent enough:
\* it ends with the earliest of the nearest such points, or with targetTime.
findBestSplitPoint(points, target, sr) ==
  LET w == windowSize(sr)
      candidates == { k \in points : /\ WithinMinSilence(k * w, target, sr)
                                     /\ EnoughSilence(points, k, sr) }
      bestPoint ==
        IF candidates = {} THEN target
        ELSE w * (CHOOSE k \in candidates :
                    \A j \in candidates :
                      \/ Abs(k * w - target) < Abs(j * w - target)
                      \/ Abs(k * w - target) = Abs(j * w - target) /\ k <= j)
  IN TimeToSample(bestPoint, sr)

(* ------------------------------------------------------------------ *)
(* Transcript text, src/src/utils/fileProcessor.ts 313-338              *)
(* A text is a sequence of units: single characters, or one of the      *)
(* marker phrases taken as one unit.                                    *)
(* ------------------------------------------------------------------ *)
AMARA == "Untertitel der Amara.org-Community"
errorIndicators == { AMARA, "[Music]", "[No speech detected]", "[Silence]" }

RECURSIVE CollapseSpaces(_)
CollapseSpaces(t) ==
  IF Len(t) < 2 THEN t
  ELSE IF t[1] = " " /\ t[2] = " " THEN CollapseSpaces(Tail(t))
       ELSE <<t[1]>> \o CollapseSpaces(Tail(t))

RECURSIVE TrimLeft(_)
TrimLeft(t) == IF t # <<>> /\ t[1] = " " THEN TrimLeft(Tail(t)) ELSE t

RECURSIVE TrimRight(_)
TrimRight(t) ==
  IF t # <<>> /\ t[Len(t)] = " " THEN TrimRight(SubSeq(t, 1, Len(t) - 1)) ELSE t

\* cleanTranscription: remove the Amara marker, collapse whitespace, trim
cleanTranscription(t) ==
  TrimRight(TrimLeft(CollapseSpaces(SelectSeq(t, LAMBDA u : u # AMARA))))

\* isValidTranscription without the test for the error indicators
isValidTranscriptionNonEmpty(t) == Len(t) > 0

\* isValidTranscription: non-empty and containing none of the error indicators
isValidTranscription(t) ==
  /\ Len(t) > 0
  /\ \A i \in 1 .. Len(t) : t[i] \notin errorIndicators

(* ------------------------------------------------------------------ *)
(* transcribeAudio, src/unnamed/part_001                                *)
(* ------------------------------------------------------------------ *)
MAX_RETRIES == 3
RETRY_DELAY == 2000

\* the substrings that make an error retryable (part_001 169-174)
RetryKeywords == { "Empty response", "network", "timeout", "rate limit" }

\* What one fetch of /.netlify/functions/transcribe can produce.  external is
\* the set of retry keywords occurring in text the client does not control
\* (the browser's fetch rejection message, the provider's error details).
TextsOfRelay ==
  { <<"a", " ", "b">>, <<" ">>, <<"[Music]">>, <<AMARA>>, <<"a", " ", AMARA>> }
ExternalTexts == { {}, {"timeout"} }
Responses ==
       { [kind |-> "text", text |-> t, external |-> {}] : t \in TextsOfRelay }
  \cup { [kind |-> k, text |-> <<>>, external |-> {}] :
           k \in { "empty_body", "no_text", "too_large", "invalid_request", "bad_request",
                   "rate_limit", "invalid_api_key", "server_error" } }
  \cup { [kind |-> k, text |-> <<>>, external |-> x] :
           k \in { "network_failure", "upstream_error" }, x \in ExternalTexts }

\* The message of the error that the attempt throws for a failed response, as
\* [text, has]: has is the set of retry keywords that the message contains.
ErrorOfResponse(r) ==
  CASE r.kind = "empty_body" ->
         [text |-> "Empty response from server", has |-> {"Empty response"}]
    [] r.kind = "too_large" ->
         [text |-> "Die Datei ist zu gross fuer die Verarbeitung", has |-> {}]
    [] r.kind = "invalid_request" ->
         [text |-> "Das Audioformat wird nicht unterstuetzt oder die Datei ist beschaedigt",
          has |-> {}]
    [] r.kind = "bad_request" ->
         [text |-> "Ungueltige Anfrage", has |-> {}]
    [] r.kind = "rate_limit" ->
         [text |-> "API-Limit erreicht", has |-> {}]
    [] r.kind = "invalid_api_key" ->
         [text |-> "Invalid API key configuration", has |-> {}]
    [] r.kind = "upstream_error" ->
         [text |-> "OpenAI API Fehler", has |-> r.external]
    [] r.kind = "server_error" ->
         [text |-> "Ein Serverfehler ist aufgetreten", has |-> {}]
    [] r.kind = "network_failure" ->
         [text |-> "fetch rejected", has |-> r.external]
    [] r.kind = "no_text" ->
         [text |-> "Keine Transkription in der Server-Antwort", has |-> {}]

\* isRetryableError taking every error for retryable
isRetryableErrorAny(err) == err.text # ""

\* isRetryableError: the message includes one of the retry keywords
isRetryableError(err) == err.has \cap RetryKeywords # {}

NoError == [text |-> "", has |-> {}]
InvalidTranscription == [text |-> "Invalid transcription detected", has |-> {}]

(* ------------------------------------------------------------------ *)
(* audioBufferToWav, src/src/utils/fileProcessor.ts 261-299             *)
(* A sample is an integer number of thousandths (-1000 is -1.0), or NaN. *)
(* ------------------------------------------------------------------ *)
numberOfChannels == 1
wavSampleRate == 16000
\* the mark for a sample that is not a number
NaN == 999999

\* DataView.setUint32 / setUint16 store the value modulo 2^32 / 2^16
\* (2^32 taken as two 16-bit halves)
Uint32(x) == (x % 65536) + 65536 * ((x \div 65536) % 65536)
Uint16(x) == x % 65536

\* the 44 header bytes, as the fields written at 272-286, and the buffer size
WavHeader(bufferLength) ==
  LET length == bufferLength * numberOfChannels * 2
  IN [ bytes |-> 44 + length,
       riffSize |-> Uint32(36 + length),
       fmtSize |-> Uint32(16),
       format |-> Uint16(1),
       channels |-> Uint16(numberOfChannels),
       sampleRate |-> Uint32(wavSampleRate),
       byteRate |-> Uint32(wavSampleRate * numberOfChannels * 2),
       blockAlign |-> Uint16(numberOfChannels * 2),
       bitsPerSample |-> Uint16(16),
       dataSize |-> Uint32(length) ]

\* x / 1000 truncated toward zero, then taken modulo 2^16 into the signed range:
\* what DataView.setInt16 stores for the number x / 1000
SetInt16(x) ==
  LET truncated == IF x < 0 THEN -((-x) \div 1000) ELSE x \div 1000
  IN ((truncated + 32768) % 65536) - 32768

\* the sample conversion of 292-293 with 0x8000 as the scale for both signs
Int16OfSampleOneScale(sample) ==
  IF sample = NaN THEN 0
  ELSE SetInt16(MaxOf(-1000, MinOf(1000, sample)) * 32768)

\* sample = Math.max(-1, Math.min(1, channelData[i]));
\* view.setInt16(offset, sample < 0 ? sample * 0x8000 : sample * 0x7FFF, true)
Int16OfSample(sample) ==
  IF sample = NaN THEN 0
  ELSE LET clamped == MaxOf(-1000, MinOf(1000, sample))
       IN SetInt16(IF clamped < 0 THEN clamped * 32768 ELSE clamped * 32767)

\* audioBufferToWav(buffer) for a buffer with the samples channelData
audioBufferToWav(channelData) ==
  [ header |-> WavHeader(Len(channelData)),
    pcm |-> [i \in 1 .. Len(channelData) |-> Int16OfSample(channelData[i])] ]

\* no WAV file has been made yet
NoWav == [header |-> WavHeader(0), pcm |-> <<>>]

(* ------------------------------------------------------------------ *)
(* transcribeInChunks, src/src/utils/fileProcessor.ts 343-437           *)
(* ------------------------------------------------------------------ *)
maxRetries == 3
retryDelay == 2000

\* transcriptions.sort((a, b) => a.startTime - b.startTime): stable insertion
RECURSIVE InsertByStartTime(_, _)
InsertByStartTime(sorted, p) ==
  IF sorted = <<>> THEN <<p>>
  ELSE IF p.startTime < sorted[1].startTime THEN <<p>> \o sorted
       ELSE <<sorted[1]>> \o InsertByStartTime(Tail(sorted), p)

\* transcriptions.sort left out: the pieces stay in the order of collection
SortByStartTimeKeepOrder(ps) == ps

RECURSIVE SortByStartTime(_)
SortByStartTime(ps) ==
  IF ps = <<>> THEN <<>>
  ELSE InsertByStartTime(SortByStartTime(SubSeq(ps, 1, Len(ps) - 1)), ps[Len(ps)])

VARIABLES
  pc,        \* position of the control flow of processFile
  file,      \* the input file: [type, ext]
  n,         \* monoData.length
  rate,      \* audioBuffer.sampleRate
  silence,   \* silencePoints, as window indices (time = k * windowSize / rate)
  offset,    \* loop variable of splitAudioIntoChunks
  chunks,    \* chunks emitted by splitAudioIntoChunks
  queue,     \* the chunks array as transcribeInChunks iterates and unshifts it
  idx,       \* next index of the array iterator of the for-of loop (1-based)
  cur,       \* index in chunks of the chunk of the current iteration (0: none)
  retryCount,
  transcriptions,
  attempt,   \* loop variable of transcribeAudio
  lastError, \* error of the last failed attempt
  hist,      \* responses received by the current transcribeAudio call
  waits,     \* delays (ms) of the timers that the current transcribeAudio call awaited
  encodes,   \* chunkToWavFile calls made for the chunk cur so far
  wav,       \* the WAV file that chunkToWavFile made last: [header, pcm]
  result,    \* what processFile gave its caller: [status, text, error]
  relay,     \* one invocation of the relay handler (netlify/functions/transcribe.ts)
  work       \* one run of transcribeWithSplitting (utils/openai.ts)

planVars == <<n, rate, silence, offset, chunks>>
ticVars == <<queue, idx, cur, retryCount, transcriptions, encodes, wav>>
taVars == <<attempt, lastError, hist, waits>>
vars == <<pc, file, n, rate, silence, offset, chunks, queue, idx, cur, retryCount,
          transcriptions, attempt, lastError, hist, waits, encodes, wav, result,
          relay, work>>
\* the variables of processFile and of what it calls
pipelineVars == <<pc, file, n, rate, silence, offset, chunks, queue, idx, cur, retryCount,
                  transcriptions, attempt, lastError, hist, waits, encodes, wav, result>>

NoResult == [status |-> "pending", text |-> <<>>, error |-> ""]

\* the relay handler has not been invoked
RelayIdle ==
  [ pc |-> "idle",
    request |-> [method |-> "", apiKey |-> FALSE, body |-> "", length |-> 0],
    tmpFilePath |-> "", tmpFile |-> "none", attempt |-> 0, calls |-> <<>>,
    unlinks |-> 0, thrown |-> [kind |-> "none", code |-> "", status |-> 0],
    status |-> 0 ]

\* transcribeWithSplitting has not been called
NoWork == [pc |-> "idle", channels |-> 0, parts |-> <<>>, transcriptions |-> <<>>,
           submitted |-> <<>>, returned |-> <<>>]

(* ------------------------------------------------------------------ *)
(* The merge loop of transcribeInChunks (401-428)                       *)
(* ------------------------------------------------------------------ *)
\* text.split(/\s+/) on a cleaned text: the words between single spaces
RECURSIVE SplitWords(_, _)
SplitWords(t, word) ==
  IF t = <<>> THEN <<word>>
  ELSE IF t[1] = " " THEN <<word>> \o SplitWords(Tail(t), <<>>)
       ELSE SplitWords(Tail(t), Append(word, t[1]))

\* words.join(' ')
RECURSIVE JoinWords(_)
JoinWords(ws) ==
  IF ws = <<>> THEN <<>>
  ELSE IF Len(ws) = 1 THEN ws[1]
       ELSE ws[1] \o <<" ">> \o JoinWords(Tail(ws))

\* words.slice(-5) and words.slice(0, 5)
LastWords(ws) == SubSeq(ws, MaxOf(1, Len(ws) - 4), Len(ws))
FirstWords(ws) == SubSeq(ws, 1, MinOf(5, Len(ws)))

\* text.split(/[.!?]\s+/).pop() || '': what follows the last sentence end
RECURSIVE AfterLastSentenceEnd(_, _)
AfterLastSentenceEnd(t, i) ==
  IF i < 1 THEN t
  ELSE IF i < Len(t) /\ t[i] \in {".", "!", "?"} /\ t[i + 1] = " "
       THEN TrimLeft(SubSeq(t, i + 1, Len(t)))
       ELSE AfterLastSentenceEnd(t, i - 1)

\* lastWords.endsWith(prefix)
EndsWith(s, suffix) ==
  /\ Len(suffix) <= Len(s)
  /\ SubSeq(s, Len(s) - Len(suffix) + 1, Len(s)) = suffix

\* the loop for (i = Math.min(...); i > 0; i--) that sets overlapIndex
RECURSIVE FindOverlap(_, _, _)
FindOverlap(lastWords, currentWords, i) ==
  IF i <= 0 THEN 0
  ELSE IF EndsWith(lastWords, SubSeq(currentWords, 1, i)) THEN i
       ELSE FindOverlap(lastWords, currentWords, i - 1)

\* combinedText.slice(0, -overlapIndex): -0 is 0, so slice(0, 0) is empty
SliceOffEnd(t, k) == IF k = 0 THEN <<>> ELSE SubSeq(t, 1, Len(t) - k)

\* the body of the merge loop for every piece after the first
RECURSIVE MergePieces(_, _, _)
MergePieces(pieces, combinedText, lastSentenceEnd) ==
  IF pieces = <<>> THEN combinedText
  ELSE LET text == pieces[1].text
           lastWords == JoinWords(LastWords(SplitWords(lastSentenceEnd, <<>>)))
           currentWords == JoinWords(FirstWords(SplitWords(text, <<>>)))
           overlapIndex == FindOverlap(lastWords, currentWords,
                                       MinOf(Len(lastWords), Len(currentWords)))
           merged == IF combinedText # <<>>
                     THEN SliceOffEnd(combinedText, overlapIndex) \o text
                     ELSE text
       IN MergePieces(Tail(pieces), merged, AfterLastSentenceEnd(text, Len(text)))

(* ------------------------------------------------------------------ *)
(* Inputs                                                               *)
(* ------------------------------------------------------------------ *)
Rates == {44100, 192000}
Lengths ==
  { h * (samplesPerChunk \div 2) + e : h \in 0 .. MaxHalfChunks, e \in {88200, 100018} }

\* silent windows first .. first + len - 1, as far as detectSilence can report them
Run(first, len, len0, sr) ==
  { k \in first .. (first + len - 1) : IsSilenceWindow(k, len0, sr) }

\* the last window that detectSilence looks at
LastWindow(len0, sr) == (len0 - windowSize(sr) - 1) \div windowSize(sr)

\* Silence maps: none; 0.2 s or 0.6 s of silence at the end of the stream or
\* around the first time-budget boundary; both; two silences of 0.26 s with
\* 0.1 s of sound between them around the first time-budget boundary
SilenceMaps(len0, sr) ==
  LET last == LastWindow(len0, sr)
      b == samplesPerChunk \div windowSize(sr)
  IN {{}}
     \cup { Run(last - l + 1, l, len0, sr) : l \in {10, 30} }
     \cup { Run(b + s, l, len0, sr) : s \in {-40, -12, 3}, l \in {10, 30} }
     \cup { Run(b - 12, 30, len0, sr) \cup Run(last - 29, 30, len0, sr) }
     \cup { Run(b - 15, 13, len0, sr) \cup Run(b + 3, 13, len0, sr) }

Streams ==
  UNION { { [n |-> len0, rate |-> sr, silence |-> m] : m \in SilenceMaps(len0, sr) } :
          len0 \in Lengths, sr \in Rates }

\* the streams that the whole pipeline is followed for: 44.1 kHz, no silence or
\* 0.6 s of silence at the end
PipelineStreams ==
  { s \in Streams : /\ s.rate = 44100
                    /\ s.silence \in { {}, Run(LastWindow(s.n, s.rate) - 29, 30, s.n, s.rate) } }

SUPPORTED_AUDIO_TYPES == { "audio/mpeg", "audio/wav", "audio/ogg", "audio/flac" }
Files ==
  { [type |-> "video/mp4", ext |-> ".mp4"], [type |-> "audio/wav", ext |-> ".wav"],
    [type |-> "", ext |-> ".mp3"], [type |-> "text/plain", ext |-> ".txt"] }

Init ==
  /\ pc = "start"
  /\ file \in Files
  /\ n = 0 /\ rate = 0 /\ silence = {} /\ offset = 0 /\ chunks = <<>>
  /\ queue = <<>> /\ idx = 1 /\ cur = 0 /\ retryCount = 0 /\ transcriptions = <<>>
  /\ attempt = 0 /\ lastError = NoError /\ hist = <<>> /\ waits = <<>> /\ encodes = 0
  /\ wav = NoWav
  /\ result = NoResult
  /\ relay = RelayIdle /\ work = NoWork

\* processFile throws a FileProcessingError to its caller
Fail(msg) ==
  /\ pc' = "failed"
  /\ result' = [status |-> "error", text |-> <<>>, error |-> msg]

\* the routing of 447-456 without its else branch: every other file is decoded
RouteFileNoReject ==
  /\ pc = "start"
  /\ IF file.type \in {"video/mp4"} \/ file.ext = ".mp4"
     THEN pc' = "converting" /\ UNCHANGED result
     ELSE pc' = "decoding" /\ UNCHANGED result
  /\ UNCHANGED <<relay, work, file, planVars, ticVars, taVars>>

(* processFile 442-456: routing by MIME type and extension *)
RouteFile ==
  /\ pc = "start"
  /\ IF file.type \in {"video/mp4"} \/ file.ext = ".mp4"
     THEN pc' = "converting" /\ UNCHANGED result
     ELSE IF file.type \in SUPPORTED_AUDIO_TYPES \/ file.ext = ".mp3"
          THEN pc' = "decoding" /\ UNCHANGED result
          ELSE Fail("Unsupported file format")
  /\ UNCHANGED <<relay, work, file, planVars, ticVars, taVars>>

(* await convertVideoToWav(file) settles *)
ConvertVideo ==
  /\ pc = "converting"
  /\ \E ok \in BOOLEAN :
       IF ok THEN pc' = "decoding" /\ UNCHANGED result
       ELSE Fail("Fehler bei der Verarbeitung der Datei")
  /\ UNCHANGED <<relay, work, file, planVars, ticVars, taVars>>

(* splitAudioIntoChunks 84-125: decode, mix down, detect silence *)
DecodeAudio ==
  /\ pc = "decoding"
  /\ \/ /\ \E s \in PipelineStreams :
             /\ n' = s.n /\ rate' = s.rate /\ silence' = s.silence
          /\ offset' = 0
          /\ chunks' = <<>>
          /\ pc' = "planning"
          /\ UNCHANGED result
       \/ /\ Fail("Fehler bei der Verarbeitung der Datei")
          /\ UNCHANGED planVars
  /\ UNCHANGED <<relay, work, file, ticVars, taVars>>

\* actualChunkSize (140-143) with the overlap added on the wrong side
ActualChunkSizeOverlapSubtracted(splitPoint, off, remainingSamples, sr) ==
  MaxOf(MinOf(splitPoint - off - overlapSamples(sr), remainingSamples),
        minChunkSamples(sr))

\* actualChunkSize (140-143) with the clip to the stream end turned into Math.max
ActualChunkSizeNotClipped(splitPoint, off, remainingSamples, sr) ==
  MaxOf(MaxOf(splitPoint - off + overlapSamples(sr), remainingSamples),
        minChunkSamples(sr))

\* actualChunkSize = Math.max(Math.min(splitPoint - offset + overlapSamples,
\*                                    remainingSamples), minChunkSamples)
ActualChunkSize(splitPoint, off, remainingSamples, sr) ==
  MaxOf(MinOf(splitPoint - off + overlapSamples(sr), remainingSamples),
        minChunkSamples(sr))

\* the chunk pushed at 165-171 with startTime left at 0
NewChunkStartZero(id, off, size, len0) ==
  [ id |-> id, start |-> 0, size |-> size,
    fadeIn |-> off > 0, fadeOut |-> off + size < len0 ]

\* the chunk pushed at 165-171 and the fades applied to it at 148-163;
\* start is startTime * sampleRate and size is duration * sampleRate
NewChunk(id, off, size, len0) ==
  [ id |-> id, start |-> off, size |-> size,
    fadeIn |-> off > 0, fadeOut |-> off + size < len0 ]

\* one iteration of the for loop of splitAudioIntoChunks (128-182)
PlanChunk ==
  /\ pc = "planning"
  /\ offset < n
  /\ Len(chunks) < MaxChunks
  /\ LET remainingSamples == n - offset
         targetChunkSize == MinOf(samplesPerChunk, remainingSamples)
         splitPoint == findBestSplitPoint(silence, offset + targetChunkSize, rate)
         actualChunkSize == ActualChunkSize(splitPoint, offset, remainingSamples, rate)
     IN /\ chunks' = Append(chunks, NewChunk(Len(chunks), offset, actualChunkSize, n))
        /\ offset' = splitPoint
  /\ UNCHANGED <<relay, work, pc, file, n, rate, silence, ticVars, taVars, result>>

\* the loop condition fails: splitAudioIntoChunks returns chunks, and
\* processFile calls transcribeInChunks(chunks, audioFile) (343-349)
PlanReturn ==
  /\ pc = "planning"
  /\ offset >= n
  /\ pc' = "iterate"
  /\ queue' = [i \in 1 .. Len(chunks) |-> i]
  /\ idx' = 1
  /\ cur' = 0
  /\ retryCount' = 0
  /\ transcriptions' = <<>>
  /\ encodes' = 0
  /\ wav' = NoWav
  /\ UNCHANGED <<relay, work, file, planVars, taVars, result>>

\* for (const chunk of chunks): the iterator yields the next element, and
\* chunkToWavFile(chunk) starts rendering (351-356)
TakeChunk ==
  /\ pc = "iterate"
  /\ idx <= Len(queue)
  /\ cur' = queue[idx]
  /\ idx' = idx + 1
  /\ encodes' = IF queue[idx] = cur THEN encodes + 1 ELSE 1
  /\ attempt' = 0
  /\ lastError' = NoError
  /\ hist' = <<>>
  /\ waits' = <<>>
  /\ pc' = "encoding"
  /\ UNCHANGED <<relay, work, file, planVars, queue, retryCount, transcriptions, wav, result>>

\* the iterator is exhausted: sort, merge and return (398-437, 467-474)
FinishChunks ==
  /\ pc = "iterate"
  /\ idx > Len(queue)
  /\ LET sorted == SortByStartTime(transcriptions)
     IN /\ transcriptions' = sorted
        /\ result' = [status |-> "text", text |-> MergePieces(sorted, <<>>, <<>>),
                      error |-> ""]
  /\ pc' = "returned"
  /\ UNCHANGED <<relay, work, file, planVars, queue, idx, cur, retryCount, encodes, wav, taVars>>

\* the WAV file is rendered and written (229-232; the values of its samples are
\* not followed here); transcribeAudio(wavFile) sends attempt 1 (part_001 46-64)
SubmitChunk ==
  /\ pc = "encoding"
  /\ wav' = [header |-> WavHeader(chunks[cur].size), pcm |-> <<>>]
  /\ attempt' = 1
  /\ pc' = "fetching"
  /\ UNCHANGED <<relay, work, file, planVars, queue, idx, cur, retryCount, transcriptions, encodes,
                 lastError, hist, waits, result>>

\* the catch block of transcribeInChunks (381-395) going on with the next chunk
\* instead of throwing once the retries are used up
CatchInChunksSkip(err) ==
  IF retryCount < maxRetries
  THEN /\ retryCount' = retryCount + 1
       /\ pc' = "retrywait"
       /\ UNCHANGED <<transcriptions, result>>
  ELSE /\ retryCount' = 0
       /\ pc' = "iterate"
       /\ UNCHANGED <<transcriptions, result>>

\* the catch block of transcribeInChunks (381-395)
CatchInChunks(err) ==
  IF retryCount < maxRetries
  THEN /\ retryCount' = retryCount + 1
       /\ pc' = "retrywait"
       /\ UNCHANGED <<transcriptions, result>>
  ELSE /\ Fail(err.text)
       /\ UNCHANGED <<retryCount, transcriptions>>

\* transcribeAudio returned text: clean, validate, collect (361-379)
CollectPiece(text) ==
  LET transcription == cleanTranscription(text)
  IN IF isValidTranscription(transcription)
     THEN /\ transcriptions' = Append(transcriptions,
                                      [text |-> transcription,
                                       startTime |-> chunks[cur].start])
          /\ retryCount' = 0
          /\ pc' = "iterate"
          /\ UNCHANGED result
     ELSE CatchInChunks(InvalidTranscription)

\* the retry test of 176 letting one more attempt through
MayRetryOneMore(att, error) == att <= MAX_RETRIES /\ isRetryableError(error)

\* if (attempt < MAX_RETRIES && isRetryableError) (part_001 176)
MayRetry(att, error) == att < MAX_RETRIES /\ isRetryableError(error)

\* the throw of 182 throwing the error of the attempt before, if there was one
ThrownErrorEarlier(error, previous) == IF previous = NoError THEN error ELSE previous

\* throw error (part_001 182), rethrown with the same message by 189-198;
\* previous is lastError before this attempt
ThrownError(error, previous) == error

\* the wait of 178 always being RETRY_DELAY
BackoffDelayFixed(att) == RETRY_DELAY

\* setTimeout(resolve, RETRY_DELAY * attempt) (part_001 178)
BackoffDelay(att) == RETRY_DELAY * att

\* the fetch of one attempt settles (part_001 66-183)
ReceiveResponse ==
  /\ pc = "fetching"
  /\ \E r \in Responses :
       /\ hist' = Append(hist, r)
       /\ IF r.kind = "text"
          THEN /\ CollectPiece(r.text)
               /\ UNCHANGED <<lastError, waits>>
          ELSE LET error == ErrorOfResponse(r)
               IN /\ lastError' = error
                  /\ IF MayRetry(attempt, error)
                     THEN /\ pc' = "backoff"
                          /\ waits' = Append(waits, BackoffDelay(attempt))
                          /\ UNCHANGED <<retryCount, transcriptions, result>>
                     ELSE /\ CatchInChunks(ThrownError(error, lastError))
                          /\ UNCHANGED waits
  /\ UNCHANGED <<relay, work, file, planVars, queue, idx, cur, encodes, wav, attempt>>

\* the wait RETRY_DELAY * attempt is over: the next attempt is sent (part_001 176-180)
RetryAttempt ==
  /\ pc = "backoff"
  /\ attempt' = attempt + 1
  /\ pc' = "fetching"
  /\ UNCHANGED <<relay, work, file, planVars, ticVars, lastError, hist, waits, result>>

\* the retry of 387-389 with chunks.push(chunk): the chunk goes to the end
RequeueChunkAtEnd ==
  /\ pc = "retrywait"
  /\ queue' = queue \o <<cur>>
  /\ pc' = "iterate"
  /\ UNCHANGED <<relay, work, file, planVars, idx, cur, retryCount, transcriptions, encodes, wav,
                 taVars, result>>

\* the retry of 387-389 without chunks.unshift(chunk): the loop just continues
RequeueChunkNoUnshift ==
  /\ pc = "retrywait"
  /\ pc' = "iterate"
  /\ UNCHANGED <<relay, work, file, planVars, ticVars, taVars, result>>

\* the wait retryDelay * retryCount is over: chunks.unshift(chunk); continue (387-389)
RequeueChunk ==
  /\ pc = "retrywait"
  /\ queue' = <<cur>> \o queue
  /\ pc' = "iterate"
  /\ UNCHANGED <<relay, work, file, planVars, idx, cur, retryCount, transcriptions, encodes, wav,
                 taVars, result>>

Next ==
  \/ RouteFile
  \/ ConvertVideo
  \/ DecodeAudio
  \/ PlanChunk
  \/ PlanReturn
  \/ TakeChunk
  \/ FinishChunks
  \/ SubmitChunk
  \/ ReceiveResponse
  \/ RetryAttempt
  \/ RequeueChunk

Spec == Init /\ [][Next]_vars

(* The Chunk Planner alone, over all streams: the state after decoding and *)
(* silence detection, followed until splitAudioIntoChunks returns.         *)
InitPlan ==
  /\ pc = "planning"
  /\ file = [type |-> "audio/wav", ext |-> ".wav"]
  /\ \E s \in Streams : n = s.n /\ rate = s.rate /\ silence = s.silence
  /\ offset = 0 /\ chunks = <<>>
  /\ queue = <<>> /\ idx = 1 /\ cur = 0 /\ retryCount = 0 /\ transcriptions = <<>>
  /\ attempt = 0 /\ lastError = NoError /\ hist = <<>> /\ waits = <<>> /\ encodes = 0
  /\ wav = NoWav
  /\ result = NoResult
  /\ relay = RelayIdle /\ work = NoWork

NextPlan == PlanChunk \/ PlanReturn

SpecPlan == InitPlan /\ [][NextPlan]_vars

(* The Stitcher alone: the state of transcribeInChunks when its for-of loop *)
(* has ended with one valid piece per chunk, for every choice of the piece  *)
(* texts and for the pieces held in every order; followed through the sort  *)
(* and the merge.                                                           *)
\* cleaned, valid texts of pieces
MergeTexts ==
  { <<"a", " ", "b">>, <<"c", " ", "d">>, <<"b", " ", "c">>,
    <<"z", " ", "a", ".", " ", "b">>, <<"a", ".", " ", "b", " ", "c">>,
    <<"b", ".", " ", "a", " ", "b">>, <<"b", ".", " ", "a", " ", "b", " ", "c">> }

\* monoData.length of a 44.1 kHz stream without silence that is planned as k chunks
MergeLength(k) == (2 * k - 1) * (samplesPerChunk \div 2) + 88200

\* the chunks that splitAudioIntoChunks returns for that stream
PlanOf(k) ==
  [ i \in 1 .. k |->
      LET off == (i - 1) * samplesPerChunk
          remainingSamples == MergeLength(k) - off
          splitPoint == findBestSplitPoint({}, off + MinOf(samplesPerChunk, remainingSamples),
                                           44100)
      IN NewChunk(i - 1, off, ActualChunkSize(splitPoint, off, remainingSamples, 44100),
                  MergeLength(k)) ]

\* one piece per chunk of PlanOf(k), held in any order
PieceLists(k) ==
  { ps \in [1 .. k -> [text : MergeTexts, startTime : { PlanOf(k)[i].start : i \in 1 .. k }]] :
      \A i, j \in 1 .. k : i # j => ps[i].startTime # ps[j].startTime }

InitMerge ==
  /\ pc = "iterate"
  /\ file = [type |-> "audio/wav", ext |-> ".wav"]
  /\ \E k \in 1 .. MaxPieces :
       /\ n = MergeLength(k) /\ offset = MergeLength(k)
       /\ chunks = PlanOf(k)
       /\ queue = [i \in 1 .. k |-> i]
       /\ idx = k + 1
       /\ cur = k
       /\ transcriptions \in PieceLists(k)
  /\ rate = 44100 /\ silence = {}
  /\ retryCount = 0 /\ encodes = 1
  /\ wav = [header |-> WavHeader(chunks[cur].size), pcm |-> <<>>]
  /\ attempt = 1 /\ lastError = NoError /\ waits = <<>>
  /\ \E i \in 1 .. Len(transcriptions) :
       /\ transcriptions[i].startTime = chunks[cur].start
       /\ hist = << [kind |-> "text", text |-> transcriptions[i].text, external |-> {}] >>
  /\ result = NoResult
  /\ relay = RelayIdle /\ work = NoWork

NextMerge == FinishChunks

SpecMerge == InitMerge /\ [][NextMerge]_vars


(* One transcribeAudio call alone: the only chunk of a short stream has just *)
(* been rendered, for the first time or after 1 .. maxRetries re-queues; the *)
(* call is followed until it returns or throws.  Every fetch settles and     *)
(* every timer fires.                                                        *)
InitClient ==
  /\ pc = "encoding"
  /\ file = [type |-> "audio/wav", ext |-> ".wav"]
  /\ n = MergeLength(1) /\ rate = 44100 /\ silence = {} /\ offset = MergeLength(1)
  /\ chunks = PlanOf(1)
  /\ \E r \in 0 .. maxRetries :
       /\ retryCount = r
       /\ queue = [i \in 1 .. r + 1 |-> 1]
       /\ idx = r + 2
       /\ encodes = r + 1
       /\ wav = IF r = 0 THEN NoWav
                ELSE [header |-> WavHeader(PlanOf(1)[1].size), pcm |-> <<>>]
  /\ cur = 1
  /\ transcriptions = <<>>
  /\ attempt = 0 /\ lastError = NoError /\ hist = <<>> /\ waits = <<>>
  /\ result = NoResult
  /\ relay = RelayIdle /\ work = NoWork

NextClient == SubmitChunk \/ ReceiveResponse \/ RetryAttempt

SpecClient == InitClient /\ [][NextClient]_vars /\ WF_vars(NextClient)


(* The WAV writer alone: a rendered buffer of 0 .. MaxSamples samples, taken *)
(* from SampleValues, is written by audioBufferToWav.                        *)
SampleValues == { -1500, -1000, -1, 0, 1, 1000, 1500, NaN }

AudioBuffers == UNION { [1 .. len -> SampleValues] : len \in 0 .. MaxSamples }

InitWav ==
  /\ pc = "rendered"
  /\ file = [type |-> "audio/wav", ext |-> ".wav"]
  /\ n = 0 /\ rate = 0 /\ silence = {} /\ offset = 0 /\ chunks = <<>>
  /\ queue = <<>> /\ idx = 1 /\ cur = 0 /\ retryCount = 0 /\ transcriptions = <<>>
  /\ attempt = 0 /\ lastError = NoError /\ hist = <<>> /\ waits = <<>> /\ encodes = 0
  /\ \E b \in AudioBuffers : wav = [buffer |-> b]
  /\ result = NoResult
  /\ relay = RelayIdle /\ work = NoWork

\* const wavBlob = await audioBufferToWav(renderedBuffer) (232)
WriteWav ==
  /\ pc = "rendered"
  /\ wav' = [buffer |-> wav.buffer] @@ audioBufferToWav(wav.buffer)
  /\ pc' = "written"
  /\ UNCHANGED <<relay, work, file, planVars, queue, idx, cur, retryCount, transcriptions, encodes,
                 taVars, result>>

NextWav == WriteWav

SpecWav == InitWav /\ [][NextWav]_vars

(* ------------------------------------------------------------------ *)
(* The relay handler, src/netlify/functions/transcribe.ts              *)
(* ------------------------------------------------------------------ *)
\* 7-9 (named apart from the constants of the browser-side client)
RELAY_MAX_FILE_SIZE == 6 * 1024 * 1024
RELAY_MAX_RETRIES == 3
RELAY_RETRY_DELAY == 1000

\* what the handler is invoked with: the HTTP method, whether OPENAI_API_KEY is
\* set, the shape of event.body and the length of the decoded buffer
RelayBodies == {"missing", "not_json", "no_base64", "base64"}
RelayLengths == {0, 1, RELAY_MAX_FILE_SIZE, RELAY_MAX_FILE_SIZE + 1}
RelayRequests ==
  { [method |-> m, apiKey |-> TRUE, body |-> "base64", length |-> 1] : m \in {"OPTIONS", "GET"} }
  \cup { [method |-> "POST", apiKey |-> k, body |-> b, length |-> 1] :
           k \in BOOLEAN, b \in RelayBodies \ {"base64"} }
  \cup { [method |-> "POST", apiKey |-> k, body |-> "base64", length |-> l] :
           k \in BOOLEAN, l \in RelayLengths }

\* how one openai.audio.transcriptions.create call settles: a transcription, an
\* APIError with its code and status, or another error
RelayNoError == [kind |-> "none", code |-> "", status |-> 0]
ApiError(code, status) == [kind |-> "api", code |-> code, status |-> status]
ProviderErrors ==
  { ApiError("invalid_request_error", 400), ApiError("invalid_api_key", 401),
    ApiError("rate_limit_exceeded", 429), ApiError("file_too_large", 413),
    ApiError("server_error", 503), ApiError("", 0),
    [kind |-> "fs", code |-> "ENOENT", status |-> 0],
    [kind |-> "other", code |-> "", status |-> 0] }
ProviderOutcomes == { [kind |-> "ok", code |-> "", status |-> 0] } \cup ProviderErrors

\* how writeFile / access / stat settle (179-183)
WriteOutcomes == {"ok", "write_fails", "access_fails"}

\* 236: the provider error codes that end the retry loop at once
NoRetryCodesNone == {}

NoRetryCodes == {"invalid_request_error", "invalid_api_key"}

\* 255: if (tmpFilePath)
ShouldCleanUpNever(path) == FALSE

ShouldCleanUp(path) == path # ""

\* 264-336: the status code answered for a caught error
StatusOfError(error) ==
  IF error.kind = "api"
  THEN CASE error.code = "invalid_request_error" -> 400
         [] error.code = "rate_limit_exceeded" -> 429
         [] error.code = "invalid_api_key" -> 401
         [] error.code = "file_too_large" -> 413
         [] OTHER -> IF error.status # 0 THEN error.status ELSE 500
  ELSE 500

\* 38-165: the answer of the validation steps, 0 when the request passes them
ValidationStatus(request) ==
  CASE request.method = "OPTIONS" -> 204
    [] request.method # "POST" -> 405
    [] ~request.apiKey -> 500
    [] request.body = "missing" -> 400
    [] request.body = "not_json" -> 400
    [] request.body = "no_base64" -> 400
    [] request.length = 0 -> 400
    [] request.length > RELAY_MAX_FILE_SIZE -> 413
    [] OTHER -> 0

\* 38-171: CORS preflight, method check, configuration and body validation
RelayValidate ==
  /\ relay.pc = "start"
  /\ LET status == ValidationStatus(relay.request) IN
       relay' = IF status # 0
                THEN [relay EXCEPT !.pc = "done", !.status = status]
                ELSE [relay EXCEPT !.pc = "writing"]
  /\ UNCHANGED <<pipelineVars, work>>

\* 173-189: name the temporary file, write it, verify it is readable
RelayWriteFile ==
  /\ relay.pc = "writing"
  /\ \E o \in WriteOutcomes :
       relay' =
         CASE o = "ok" ->
                [relay EXCEPT !.tmpFilePath = "tmp.wav", !.tmpFile = "exists",
                              !.attempt = 1, !.pc = "calling"]
           [] o = "write_fails" ->
                [relay EXCEPT !.tmpFilePath = "tmp.wav",
                              !.thrown = [kind |-> "fs", code |-> "EACCES", status |-> 0],
                              !.pc = "catch"]
           [] o = "access_fails" ->
                [relay EXCEPT !.tmpFilePath = "tmp.wav", !.tmpFile = "exists",
                              !.thrown = [kind |-> "fs", code |-> "EACCES", status |-> 0],
                              !.pc = "catch"]
  /\ UNCHANGED <<pipelineVars, work>>

\* 191-208, 230-249: one provider call of the retry loop and what follows it
RelayCallProvider ==
  /\ relay.pc = "calling"
  /\ \E o \in ProviderOutcomes :
       LET called == [relay EXCEPT !.calls = Append(@, o)] IN
       relay' =
         IF o.kind = "ok"
         THEN [called EXCEPT !.pc = "cleanup"]
         ELSE IF o.kind = "api" /\ o.code \in NoRetryCodes
              THEN [called EXCEPT !.thrown = o, !.pc = "catch"]
              ELSE IF relay.attempt < RELAY_MAX_RETRIES
                   THEN [called EXCEPT !.pc = "waiting"]
                   ELSE [called EXCEPT !.thrown = o, !.pc = "catch"]
  /\ UNCHANGED <<pipelineVars, work>>

\* 243, 191: wait(RETRY_DELAY) settles, attempt++
RelayWait ==
  /\ relay.pc = "waiting"
  /\ relay' = [relay EXCEPT !.attempt = @ + 1, !.pc = "calling"]
  /\ UNCHANGED <<pipelineVars, work>>

\* 209-229: delete the temporary file, answer 200
RelaySucceed ==
  /\ relay.pc = "cleanup"
  /\ \E unlinked \in BOOLEAN :
       relay' = IF unlinked
                THEN [relay EXCEPT !.unlinks = @ + 1, !.tmpFile = "deleted",
                                   !.tmpFilePath = "", !.status = 200, !.pc = "done"]
                ELSE [relay EXCEPT !.unlinks = @ + 1, !.status = 200, !.pc = "done"]
  /\ UNCHANGED <<pipelineVars, work>>

\* 251-336: the outer catch: delete the temporary file, map the error
RelayCatch ==
  /\ relay.pc = "catch"
  /\ LET answered == [relay EXCEPT !.status = StatusOfError(relay.thrown), !.pc = "done"] IN
       IF ShouldCleanUp(relay.tmpFilePath)
       THEN \E unlinked \in BOOLEAN :
              relay' = IF unlinked /\ relay.tmpFile = "exists"
                       THEN [answered EXCEPT !.unlinks = @ + 1, !.tmpFile = "deleted"]
                       ELSE [answered EXCEPT !.unlinks = @ + 1]
       ELSE relay' = answered
  /\ UNCHANGED <<pipelineVars, work>>

\* The relay alone: one invocation of the handler for every request, followed
\* until it answers.  Every file-system call, provider call and timer settles.
InitRelay ==
  /\ pc = "idle" /\ file = [type |-> "", ext |-> ""]
  /\ n = 0 /\ rate = 0 /\ silence = {} /\ offset = 0 /\ chunks = <<>>
  /\ queue = <<>> /\ idx = 0 /\ cur = 0 /\ retryCount = 0 /\ transcriptions = <<>>
  /\ attempt = 0 /\ lastError = NoError /\ hist = <<>> /\ waits = <<>>
  /\ encodes = 0 /\ wav = NoWav
  /\ result = NoResult
  /\ work = NoWork
  /\ \E r \in RelayRequests : relay = [RelayIdle EXCEPT !.pc = "start", !.request = r]

NextRelay ==
  \/ RelayValidate
  \/ RelayWriteFile
  \/ RelayCallProvider
  \/ RelayWait
  \/ RelaySucceed
  \/ RelayCatch

SpecRelay == InitRelay /\ [][NextRelay]_vars /\ WF_vars(NextRelay)

(* ------------------------------------------------------------------ *)
(* The size-halving variant, src/src/utils/openai.ts 190-386            *)
(* A part is the stretch [pos, pos + len) of the frames of the original *)
(* audio, with the byte size of its File.  The transcript of a part is  *)
(* kept as the part it was made from.                                   *)
(* ------------------------------------------------------------------ *)
\* 190 (named apart from the relay's constant)
SPLIT_MAX_FILE_SIZE == 26214400

\* 291-293: const length = buffer.length * numberOfChannels * 2; 44 + length bytes
WavFileSize(channels, frames) == 44 + frames * channels * 2

\* 196-234: the two halves of a part, each rendered to a WAV file
splitAudioFile(part, channels) ==
  LET mid == part.len \div 2 IN
  << [pos |-> part.pos, len |-> mid, size |-> WavFileSize(channels, mid)],
     [pos |-> part.pos + mid, len |-> part.len - mid,
      size |-> WavFileSize(channels, part.len - mid)] >>

\* 361-363: while (parts.length > 0), currentPart = parts.shift()
currentPart == Head(work.parts)

\* 364-372: an oversized part is replaced by its halves, or splitting throws
SplitPart ==
  /\ work.pc = "loop"
  /\ work.parts # <<>>
  /\ currentPart.size > SPLIT_MAX_FILE_SIZE
  /\ \E ok \in BOOLEAN :
       work' = IF ok
               THEN [work EXCEPT !.parts = Tail(@) \o splitAudioFile(currentPart, work.channels)]
               ELSE [work EXCEPT !.parts = Tail(@), !.pc = "failed"]
  /\ UNCHANGED <<pipelineVars, relay>>

\* 373-381: a part within the limit is submitted; its transcript is appended,
\* or transcribeAudio throws
TranscribePart ==
  /\ work.pc = "loop"
  /\ work.parts # <<>>
  /\ ~(currentPart.size > SPLIT_MAX_FILE_SIZE)
  /\ \E ok \in BOOLEAN :
       work' = IF ok
               THEN [work EXCEPT !.parts = Tail(@),
                                 !.submitted = Append(@, currentPart),
                                 !.transcriptions = Append(@, currentPart)]
               ELSE [work EXCEPT !.parts = Tail(@),
                                 !.submitted = Append(@, currentPart),
                                 !.pc = "failed"]
  /\ UNCHANGED <<pipelineVars, relay>>

\* 361, 385: the queue is empty; return transcriptions.join(' ').trim()
ReturnJoined ==
  /\ work.pc = "loop"
  /\ work.parts = <<>>
  /\ work' = [work EXCEPT !.returned = work.transcriptions, !.pc = "done"]
  /\ UNCHANGED <<pipelineVars, relay>>

\* the largest number of frames whose WAV file is within the limit
FramesAtLimit(channels) == (SPLIT_MAX_FILE_SIZE - 44) \div (channels * 2)

\* decoded lengths around 1, 2, 4, ... times the largest length within the limit
SplitLengths(channels) ==
  { m * FramesAtLimit(channels) + e :
      m \in { 2 ^ j : j \in 0 .. MaxHalvings - 1 }, e \in 0 .. 2 ^ (MaxHalvings - 1) }

\* transcribeWithSplitting alone: called with a 16-bit WAV file of one or two
\* channels, or with a file of another encoding just above the limit; followed
\* until it returns or throws.
InitSplit ==
  /\ pc = "idle" /\ file = [type |-> "", ext |-> ""]
  /\ n = 0 /\ rate = 0 /\ silence = {} /\ offset = 0 /\ chunks = <<>>
  /\ queue = <<>> /\ idx = 0 /\ cur = 0 /\ retryCount = 0 /\ transcriptions = <<>>
  /\ attempt = 0 /\ lastError = NoError /\ hist = <<>> /\ waits = <<>>
  /\ encodes = 0 /\ wav = NoWav
  /\ result = NoResult
  /\ relay = RelayIdle
  /\ \E c \in {1, 2} : \E frames \in SplitLengths(c) :
       \E size \in {WavFileSize(c, frames), SPLIT_MAX_FILE_SIZE + 1} :
         work = [NoWork EXCEPT !.pc = "loop", !.channels = c,
                               !.parts = << [pos |-> 0, len |-> frames, size |-> size] >>]

NextSplit ==
  \/ SplitPart
  \/ TranscribePart
  \/ ReturnJoined

SpecSplit == InitSplit /\ [][NextSplit]_vars /\ WF_vars(NextSplit)

(* ------------------------------------------------------------------ *)
(* Properties                                                           *)
(* ------------------------------------------------------------------ *)
Last(seq) == seq[Len(seq)]

\* splitAudioIntoChunks has just returned chunks
PlannerReturned == pc = "iterate" /\ idx = 1 /\ Len(queue) = Len(chunks)

\* the current transcribeAudio call has thrown (its last response was a failure)
ClientThrew ==
  /\ pc \in {"retrywait", "failed"}
  /\ hist # <<>>
  /\ Last(hist).kind # "text"

\* the failure classes that the specification calls transient
TransientResponse(r) == r.kind \in {"empty_body", "network_failure", "rate_limit"}

\* invalid request / malformed audio / invalid credentials
FatalResponse(r) == r.kind \in {"invalid_request", "bad_request", "invalid_api_key"}

\* a transcript is returned only with one valid piece for every planned chunk,
\* and a failed processFile carries an error and no text
C1_TextOnlyWhenComplete ==
  /\ result.status = "text" =>
       /\ pc = "returned"
       /\ Len(transcriptions) = Len(chunks)
       /\ \A i \in 1 .. Len(chunks) :
            \E j \in 1 .. Len(transcriptions) :
              /\ transcriptions[j].startTime = chunks[i].start
              /\ isValidTranscription(transcriptions[j].text)
  /\ pc = "returned" => result.status = "text"
  /\ pc = "failed" => result.status = "error" /\ result.text = <<>>

\* the attempt of a chunk whose retries are used up ends: it either adds a piece
\* or makes processFile throw
C1_ExhaustedChunkThrows ==
  (retryCount = maxRetries /\ pc = "fetching" /\ pc' \notin {"fetching", "backoff"}) =>
    \/ pc' = "failed" /\ result'.status = "error"
    \/ pc' = "iterate" /\ Len(transcriptions') = Len(transcriptions) + 1

\* C1: processFile returns a transcript only if every planned chunk has produced
\* exactly one valid piece; a failure of a chunk whose retries are used up makes
\* processFile throw, and a failed processFile returns no text, whatever pieces
\* had been collected before.
C1_WholeOrNothing == []C1_TextOnlyWhenComplete /\ [][C1_ExhaustedChunkThrows]_vars

\* processFile has failed on a later chunk after earlier chunks had given their pieces
C1_Witness ==
  /\ pc = "failed"
  /\ retryCount = maxRetries
  /\ Len(transcriptions) >= 1
  /\ Len(chunks) > Len(transcriptions)
  /\ result.status = "error"

\* C2: when every submission of a segment fails with a transient failure,
\* transcribeAudio sends exactly MAX_RETRIES requests before it throws: never
\* more, and it never throws after fewer.
C2_ExactlyThreeRequests ==
  /\ Len(hist) <= MAX_RETRIES
  /\ (ClientThrew /\ \A i \in 1 .. Len(hist) : TransientResponse(hist[i])) =>
       Len(hist) = MAX_RETRIES

C4_MalformedFailsAtOnce ==
  (encodes = 1 /\ Len(hist) = 1 /\ hist[1].kind = "invalid_request") => pc = "failed"

\* C5: a rate-limit response (HTTP 429) on attempt 1 or 2 is retried by
\* transcribeAudio: the call waits and sends the next attempt instead of throwing.
C5_RateLimitRetried ==
  \A i \in 1 .. Len(hist) :
    (hist[i].kind = "rate_limit" /\ i < MAX_RETRIES) => (pc = "backoff" \/ Len(hist) > i)

\* C6: every iteration of the planner loop moves the start offset strictly forward.
C6_OffsetAdvances ==
  [][(pc = "planning" /\ pc' = "planning") => offset' > offset]_vars

\* C7: every emitted chunk, written as 16-bit mono WAV (44 + 2 * samples bytes),
\* is no larger than MAX_CHUNK_SIZE.
C7_ChunkFitsCeiling ==
  \A i \in 1 .. Len(chunks) : 44 + 2 * chunks[i].size <= MAX_CHUNK_SIZE

\* a chunk cut at a silence point behind the time budget and lengthened by the overlap
C7_Witness ==
  \E i \in 1 .. Len(chunks) :
    chunks[i].size > samplesPerChunk + overlapSamples(rate)

RECURSIVE SumSizes(_)
SumSizes(cs) == IF cs = <<>> THEN 0 ELSE cs[1].size + SumSizes(Tail(cs))

\* C8: the returned chunks cover the stream without gaps: the first starts at
\* sample 0, each later one starts no later than the end of the one before, the
\* last one reaches the stream end, and the sizes add up to at least the stream.
C8_NoGaps ==
  PlannerReturned =>
    /\ chunks # <<>>
    /\ chunks[1].start = 0
    /\ \A k \in 1 .. Len(chunks) - 1 :
         chunks[k + 1].start <= chunks[k].start + chunks[k].size
    /\ Last(chunks).start + Last(chunks).size >= n
    /\ SumSizes(chunks) >= n

\* three chunks, the second one starting at a silence point
C8_Witness ==
  /\ PlannerReturned
  /\ Len(chunks) = 3
  /\ chunks[2].start # samplesPerChunk
  /\ silence # {}

\* C9: the final chunk ends exactly at the stream length, and no chunk is longer
\* than the samples that remain from its start.
C9_EndsAtStreamEnd ==
  PlannerReturned =>
    /\ Last(chunks).start + Last(chunks).size = n
    /\ \A i \in 1 .. Len(chunks) : chunks[i].size <= n - chunks[i].start

\* C10: in the returned chunk sequence startTime strictly increases with the id.
C10_StartTimesIncrease ==
  PlannerReturned =>
    \A k \in 1 .. Len(chunks) - 1 :
      /\ chunks[k + 1].id = chunks[k].id + 1
      /\ chunks[k + 1].start > chunks[k].start

\* three chunks whose second one starts at a silence point behind the time budget
C10_Witness ==
  /\ PlannerReturned
  /\ Len(chunks) = 3
  /\ chunks[3].start > chunks[2].start
  /\ chunks[2].start > samplesPerChunk
\* the lengths k > 0 for which the last k characters of s are the first k of t
Overlaps(s, t) == { k \in 1 .. MinOf(Len(s), Len(t)) : EndsWith(s, SubSeq(t, 1, k)) }

\* C11: two pieces without textual overlap are merged to the first piece, a single
\* space and the second piece: nothing of the first piece is removed.
C11_DisjointJoinedBySpace ==
  (/\ pc = "returned"
   /\ Len(transcriptions) = 2
   /\ Overlaps(transcriptions[1].text, transcriptions[2].text) = {}) =>
    result.text = transcriptions[1].text \o <<" ">> \o transcriptions[2].text
\* the same pieces held in every order
Reorderings(ps) ==
  { [i \in 1 .. Len(ps) |-> ps[f[i]]] : f \in Permutations(1 .. Len(ps)) }

\* C12: the merged transcript depends only on the set of pieces: whatever the
\* order in which the pieces with their distinct startTimes are held, sorting by
\* startTime and merging gives the string that transcribeInChunks returns.
C12_OrderIndependent ==
  pc = "returned" =>
    \A qs \in Reorderings(transcriptions) :
      MergePieces(SortByStartTime(qs), <<>>, <<>>) = result.text

\* three pieces have been merged whose merge in another order gives another string
C12_Witness ==
  /\ pc = "returned"
  /\ Len(transcriptions) = 3
  /\ \E qs \in Reorderings(transcriptions) : MergePieces(qs, <<>>, <<>>) # result.text
\* the longest suffix of s that is also a prefix of t, as a length
LongestOverlap(s, t) ==
  IF Overlaps(s, t) = {} THEN 0
  ELSE CHOOSE k \in Overlaps(s, t) : \A j \in Overlaps(s, t) : j <= k

\* the accumulated text without the longest suffix of its last five words that is
\* a prefix of the first five words of the incoming piece, then that piece in full
RECURSIVE StitchedByLongestOverlap(_, _)
StitchedByLongestOverlap(pieces, accumulated) ==
  IF pieces = <<>> THEN accumulated
  ELSE LET text == pieces[1].text
           k == LongestOverlap(JoinWords(LastWords(SplitWords(accumulated, <<>>))),
                               JoinWords(FirstWords(SplitWords(text, <<>>))))
       IN StitchedByLongestOverlap(Tail(pieces),
                                   SubSeq(accumulated, 1, Len(accumulated) - k) \o text)

\* C13: for each piece after the first the merge removes from the end of the
\* accumulated text exactly the longest suffix of its last five words that is a
\* prefix of the first five words of the incoming piece, and appends the piece in
\* full, also when those last five words span a sentence boundary.
C13_LongestOverlapRemoved ==
  pc = "returned" =>
    result.text = StitchedByLongestOverlap(Tail(transcriptions), transcriptions[1].text)
\* a text that after cleaning is empty or is just one of the filler artifacts
EmptyOrFiller(t) ==
  LET cleaned == cleanTranscription(t)
  IN cleaned = <<>> \/ (Len(cleaned) = 1 /\ cleaned[1] \in errorIndicators)

\* the last response for the current chunk was such a text
GotEmptyOrFiller ==
  hist # <<>> /\ Last(hist).kind = "text" /\ EmptyOrFiller(Last(hist).text)

\* C14: a piece that after cleaning is empty or only a filler artifact is never
\* among the collected pieces and its chunk is never passed over: after such a
\* response the chunk waits for its retry or is the next one that the loop takes,
\* or processFile has failed; a returned transcript has a real piece per chunk.
C14_FillerRetriedNotDropped ==
  /\ \A j \in 1 .. Len(transcriptions) : ~EmptyOrFiller(transcriptions[j].text)
  /\ GotEmptyOrFiller =>
       \/ pc = "retrywait" /\ retryCount >= 1
       \/ pc = "iterate" /\ idx <= Len(queue) /\ queue[idx] = cur
       \/ pc = "failed" /\ retryCount = maxRetries
  /\ pc = "returned" =>
       \A i \in 1 .. Len(chunks) :
         \E j \in 1 .. Len(transcriptions) :
           transcriptions[j].startTime = chunks[i].start

\* a filler-only response for the second chunk has put that chunk back in front
\* of the loop
C14_Witness ==
  /\ GotEmptyOrFiller
  /\ Last(hist).text = <<"[Music]">>
  /\ pc = "iterate"
  /\ cur = 2
  /\ queue[idx] = cur
  /\ Len(transcriptions) = 1
\* C15: segments are handled one at a time and in ascending chunk order: of the
\* requests of the current transcribeAudio call at most one has no response yet,
\* and the chunk that is being encoded, submitted or waited for is the first one
\* without a piece, all chunks before it having given their pieces in order.
C15_OneAtATimeInOrder ==
  /\ attempt - Len(hist) \in {0, 1}
  /\ attempt - Len(hist) = 1 <=> pc = "fetching"
  /\ pc \in {"encoding", "fetching", "backoff", "retrywait"} =>
       /\ cur = Len(transcriptions) + 1
       /\ \A j \in 1 .. Len(transcriptions) :
            transcriptions[j].startTime = chunks[j].start

\* the second chunk is submitted a second time, after the first chunk's piece
C15_Witness ==
  /\ pc = "fetching"
  /\ cur = 2
  /\ encodes = 2
  /\ Len(transcriptions) = 1
  /\ Len(chunks) = 3

\* C16: whatever failures and re-queues happened, a transcribeInChunks that returns
\* has exactly one piece per planned chunk, in ascending startTime, no piece is
\* ever collected twice, and the returned text is the merge in that order.
C16_OnePiecePerChunk ==
  /\ \A i, j \in 1 .. Len(transcriptions) :
       i # j => transcriptions[i].startTime # transcriptions[j].startTime
  /\ pc = "returned" =>
       /\ Len(transcriptions) = Len(chunks)
       /\ \A i \in 1 .. Len(chunks) : transcriptions[i].startTime = chunks[i].start
       /\ result.text = MergePieces(transcriptions, <<>>, <<>>)

\* a run returned in which each of three chunks had failed once and was put back
C16_Witness ==
  /\ pc = "returned"
  /\ queue = <<3, 2, 1, 1, 2, 3>>
  /\ Len(transcriptions) = 3
\* what the MIME type and the extension of a file indicate
IndicatesVideo(f) == f.type \in {"video/mp4", "video/webm"} \/ f.ext = ".mp4"
IndicatesAudio(f) == f.type \in SUPPORTED_AUDIO_TYPES \/ f.ext = ".mp3"

\* a file that is neither video nor supported audio is never converted, decoded,
\* chunked or submitted, and fails as unsupported; only video is converted
C17_NoWorkForUnsupported ==
  /\ (~IndicatesVideo(file) /\ ~IndicatesAudio(file)) =>
       /\ pc \in {"start", "failed"}
       /\ n = 0 /\ chunks = <<>> /\ queue = <<>> /\ attempt = 0 /\ hist = <<>>
       /\ pc = "failed" => result.error = "Unsupported file format"
  /\ pc = "converting" => IndicatesVideo(file)

\* supported audio goes from the routing straight to the decoding, as it is
C17_AudioPassesUnchanged ==
  (pc = "start" /\ IndicatesAudio(file) /\ ~IndicatesVideo(file)) =>
    (pc' = "decoding" /\ file' = file /\ result' = result)

\* C17: processFile rejects a file whose MIME type and extension indicate neither
\* video nor supported audio with an unsupported-format failure before anything
\* is decoded, chunked or submitted; only video inputs go to the video converter,
\* and supported audio passes through unchanged.
C17_FailFastRouting == []C17_NoWorkForUnsupported /\ [][C17_AudioPassesUnchanged]_vars

\* a text file has been rejected as unsupported, with nothing decoded
C17_Witness ==
  /\ pc = "failed"
  /\ file.type = "text/plain"
  /\ result.error = "Unsupported file format"
  /\ n = 0
\* the samples of the stream that chunk c holds (monoData.slice clips at the end)
StreamSamples(c) == MinOf(c.size, n - c.start)

\* C18: no emitted chunk is shorter than the minimum chunk duration: for a stream
\* of at least MIN_CHUNK_DURATION seconds every returned chunk, the last one
\* included, holds at least MIN_CHUNK_DURATION seconds of samples of the stream.
C18_FloorOfStreamSamples ==
  (PlannerReturned /\ n >= MIN_CHUNK_DURATION * rate) =>
    \A i \in 1 .. Len(chunks) : StreamSamples(chunks[i]) >= MIN_CHUNK_DURATION * rate

\* C19: for a stream shorter than MIN_CHUNK_DURATION seconds, whatever its silence
\* map, the planner emits one chunk only, and returns it: it starts at 0, is as
\* long as the stream and has neither a fade-in nor a fade-out.
C19_ShortStreamOneChunk ==
  n < MIN_CHUNK_DURATION * rate =>
    /\ Len(chunks) <= 1
    /\ PlannerReturned =>
         /\ Len(chunks) = 1
         /\ chunks[1].start = 0
         /\ chunks[1].size = n
         /\ ~chunks[1].fadeIn /\ ~chunks[1].fadeOut

\* C20: two consecutive emitted chunks share at most the overlap window: the end
\* of chunk k lies at most OVERLAP_DURATION seconds of samples behind the start of
\* chunk k + 1.
C20_OverlapBounded ==
  \A k \in 1 .. Len(chunks) - 1 :
    chunks[k].start + chunks[k].size - chunks[k + 1].start <= OVERLAP_DURATION * rate
\* the transcribeAudio call has returned or thrown
ClientDone == pc \in {"iterate", "retrywait", "failed", "returned"}

\* Pending, Submitting, Retrying and the terminal states, with the ceiling
C21_States ==
  /\ attempt <= MAX_RETRIES
  /\ Len(waits) <= MAX_RETRIES - 1
  /\ pc = "encoding" => attempt = 0 /\ hist = <<>>
  /\ pc = "fetching" => attempt = Len(hist) + 1
  /\ pc = "backoff" => attempt = Len(hist) /\ Last(hist).kind # "text"
  /\ ClientDone => /\ attempt = Len(hist)
                   /\ ~ENABLED (SubmitChunk \/ ReceiveResponse \/ RetryAttempt)

\* the transitions of a submission
C21_Steps ==
  /\ pc = "encoding" => pc' = "fetching"
  /\ pc = "fetching" => pc' = "backoff" \/ ClientDone'
  /\ pc = "backoff" => pc' = "fetching" /\ Len(hist') = Len(hist)

\* C21: a submission goes Pending -> Submitting -> {Succeeded | Retrying ->
\* Submitting | Failed}: whatever the responses, it returns or throws after
\* finitely many steps, it retries at most MAX_RETRIES - 1 times, and no request
\* is sent for the call once it has returned or thrown.
C21_Lifecycle ==
  /\ []C21_States
  /\ [][C21_Steps]_vars
  /\ (pc = "encoding" ~> ClientDone)

\* a call has thrown after two retries
C21_Witness ==
  /\ ClientDone
  /\ attempt = MAX_RETRIES
  /\ Len(hist) = MAX_RETRIES
  /\ Len(waits) = MAX_RETRIES - 1
  /\ Last(hist).kind # "text"

\* C22: the error that transcribeAudio throws, and the failure of processFile
\* made from it, carry the cause of the last attempt of the call.
C22_LastCauseSurfaced ==
  ClientThrew =>
    /\ lastError = ErrorOfResponse(Last(hist))
    /\ pc = "failed" => result.error = ErrorOfResponse(Last(hist)).text

\* the retries are used up, the three attempts having failed for different
\* reasons, and processFile has failed
C22_Witness ==
  /\ pc = "failed"
  /\ Len(hist) = MAX_RETRIES
  /\ hist[1].kind = "empty_body"
  /\ hist[2].kind = "upstream_error"
  /\ hist[3].kind = "network_failure"
  /\ result.error = "fetch rejected"

\* C23: before attempt k + 1 of a call the client has waited RETRY_DELAY * k, so
\* the waits strictly increase; every retry has its wait before it, and no wait
\* follows the last attempt of the call.
C23_WaitsGrow ==
  /\ \A i \in 1 .. Len(waits) : waits[i] = RETRY_DELAY * i
  /\ \A i \in 1 .. Len(waits) - 1 : waits[i] < waits[i + 1]
  /\ pc = "fetching" => Len(waits) = attempt - 1
  /\ pc = "backoff" => Len(waits) = attempt
  /\ (ClientDone /\ hist # <<>>) => Len(waits) = Len(hist) - 1

\* the third attempt is in flight after waits of 2 s and 4 s
C23_Witness ==
  /\ pc = "fetching"
  /\ attempt = 3
  /\ waits = <<2000, 4000>>
\* C24: the failures of one chunk are absorbed up to maxRetries: a chunk is never
\* encoded and submitted more than maxRetries times, and when processFile fails on
\* a chunk, that chunk has been encoded and submitted exactly maxRetries times.
C24_ThreeSubmissions ==
  /\ encodes <= maxRetries
  /\ (pc = "failed" /\ cur # 0) => encodes = maxRetries
\* window k lies in at least 0.5 s (25 windows of 20 ms) of contiguous silence
ContiguousSilence(k) ==
  \E a \in (k - 24) .. k : \A j \in a .. (a + 24) : j \in silence

\* the time-budget boundary of the iteration that starts at offset
BudgetTarget == offset + MinOf(samplesPerChunk, n - offset)

\* the silence points within the tolerance of the target that qualify
QualifyingPoints ==
  { k \in silence : /\ WithinMinSilence(k * windowSize(rate), BudgetTarget, rate)
                    /\ ContiguousSilence(k) }

\* one iteration cuts at a nearest qualifying silence point, or at the boundary
C25_Cut ==
  (pc = "planning" /\ chunks' # chunks) =>
    IF QualifyingPoints = {}
    THEN offset' = BudgetTarget
    ELSE \E k \in QualifyingPoints :
           /\ offset' = k * windowSize(rate)
           /\ \A j \in QualifyingPoints :
                Abs(k * windowSize(rate) - BudgetTarget)
                  <= Abs(j * windowSize(rate) - BudgetTarget)

\* C25: every split point is the silence point nearest the time-budget target
\* among those within 0.5 s of it that lie in at least 0.5 s of contiguous
\* silence; when none qualifies, the cut is exactly at the time-budget boundary
\* (offset plus samplesPerChunk, or the stream end).
C25_NearestQualifyingOrBoundary == [][C25_Cut]_vars
\* C26: in the returned chunk sequence a chunk has a fade-in exactly when it is
\* not the first one, and a fade-out exactly when it is not the last one, also
\* when its overlap tail was clipped at the stream end.
C26_FadesAtInnerBoundaries ==
  PlannerReturned =>
    \A i \in 1 .. Len(chunks) :
      /\ chunks[i].fadeIn <=> i > 1
      /\ chunks[i].fadeOut <=> i < Len(chunks)
\* C27: for a buffer of k samples audioBufferToWav makes 44 + 2k bytes; its header
\* declares a RIFF size of 36 + 2k, a fmt size of 16 and a data size of 2k, a byte
\* rate of sampleRate * channels * 2 and a block align of channels * 2; every
\* written sample is a signed 16-bit value, of the sign of the sample it was made
\* from, and full scale maps to -32768 and 32767.
C27_WavWellFormed ==
  pc = "written" =>
    LET k == Len(wav.buffer)
        h == wav.header
    IN /\ h.bytes = 44 + 2 * k
       /\ h.riffSize = 36 + 2 * k
       /\ h.fmtSize = 16
       /\ h.dataSize = 2 * k
       /\ h.byteRate = h.sampleRate * h.channels * 2
       /\ h.blockAlign = h.channels * 2
       /\ Len(wav.pcm) = k
       /\ \A i \in 1 .. k :
            /\ wav.pcm[i] \in -32768 .. 32767
            /\ wav.buffer[i] # NaN =>
                 /\ wav.buffer[i] >= 0 => wav.pcm[i] >= 0
                 /\ wav.buffer[i] <= 0 => wav.pcm[i] <= 0
                 /\ wav.buffer[i] >= 1000 => wav.pcm[i] = 32767
                 /\ wav.buffer[i] <= -1000 => wav.pcm[i] = -32768

\* a buffer with samples beyond full scale on both sides has been written
C27_Witness ==
  /\ pc = "written"
  /\ wav.buffer = <<1500, -1500, NaN>>
  /\ wav.pcm = <<32767, -32768, 0>>
  /\ wav.header.bytes = 50

\* the provider calls of the relay that failed
FailedCalls == { i \in 1 .. Len(relay.calls) : relay.calls[i].kind # "ok" }

\* a provider failure that the relay does not retry
RelayFatal(o) == o.kind = "api" /\ o.code \in {"invalid_request_error", "invalid_api_key"}

C28_States ==
  LET calls == relay.calls IN
  /\ Len(calls) <= 3
  /\ \A i \in 1 .. Len(calls) - 1 : calls[i].kind # "ok" /\ ~RelayFatal(calls[i])
  /\ relay.status = 200 <=> (relay.pc = "done" /\ calls # <<>> /\ Last(calls).kind = "ok")
  /\ (relay.pc = "done" /\ calls # <<>> /\ Last(calls).kind # "ok") =>
       /\ relay.status >= 400
       /\ RelayFatal(Last(calls)) \/ Cardinality(FailedCalls) = 3

\* C28: for one request the relay calls the provider at most 3 times; a
\* successful call is the last one and is answered with 200; a call failing with
\* invalid_request_error or invalid_api_key is the last one; any other failure
\* is answered with an error only after exactly 3 failed calls; and the handler
\* always answers.
C28_BoundedProviderCalls ==
  /\ []C28_States
  /\ (relay.pc = "calling" ~> relay.pc = "done")

\* three retryable failures have been answered with the status of the last one
C28_Witness ==
  /\ relay.pc = "done"
  /\ Len(relay.calls) = 3
  /\ Cardinality(FailedCalls) = 3
  /\ relay.calls[3].code = "rate_limit_exceeded"
  /\ relay.status = 429

\* the request is one that validation rejects for its body
RejectedBody(request) ==
  /\ request.method = "POST"
  /\ request.apiKey
  /\ \/ request.body \in {"missing", "not_json", "no_base64"}
     \/ request.length = 0
     \/ request.length > 6 * 1024 * 1024

\* C29: the relay never attempts to delete its temporary file twice; when it
\* answers after having written the file it has attempted the deletion exactly
\* once, and the file is gone unless that attempt failed; a request rejected by
\* validation never gets a temporary file or a provider call.
C29_TempFileCleanedOnce ==
  /\ relay.unlinks <= 1
  /\ (relay.pc = "done" /\ relay.tmpFile # "none") => relay.unlinks = 1
  /\ relay.tmpFile = "deleted" => relay.unlinks = 1
  /\ RejectedBody(relay.request) =>
       /\ relay.tmpFile = "none" /\ relay.tmpFilePath = ""
       /\ relay.calls = <<>>
       /\ relay.unlinks = 0
       /\ relay.pc = "done" => relay.status \in {400, 413}

\* the retries were exhausted and the file was deleted in the outer catch
C29_Witness ==
  /\ relay.pc = "done"
  /\ Len(relay.calls) = 3
  /\ relay.thrown.kind # "none"
  /\ relay.tmpFile = "deleted"
  /\ relay.unlinks = 1

\* C30 (part): no part larger than MAX_FILE_SIZE is submitted
C30_SubmittedWithinLimit ==
  \A i \in 1 .. Len(work.submitted) : work.submitted[i].size <= 26214400

\* C30: the transcripts collected by transcribeWithSplitting are in the order of
\* the position of their parts in the original audio, at every moment and in the
\* joined result, and no part larger than MAX_FILE_SIZE is submitted.
C30_TranscriptInAudioOrder ==
  /\ \A i, j \in 1 .. Len(work.transcriptions) :
       i < j => work.transcriptions[i].pos < work.transcriptions[j].pos
  /\ \A i, j \in 1 .. Len(work.returned) :
       i < j => work.returned[i].pos < work.returned[j].pos
  /\ C30_SubmittedWithinLimit
====
